---- MODULE Spec2Model ----
(***************************************************************************)
(* A model of fetch-nodeshim: the fetch orchestrator of src/src/fetch.ts   *)
(* (redirect state machine, request header finalisation, response          *)
(* assembly) together with the body extractor of src/src/body.ts and the   *)
(* content decoders of encoding.ts.                                        *)
(*                                                                         *)
(* Conventions.                                                            *)
(*   - A JavaScript value that may be null/undefined is a sequence of      *)
(*     length 0 (None) or 1 (Some(x)).                                     *)
(*   - A URL string (href, Location value) is a 5-tuple                    *)
(*     <<protocol, username, hostname, port, pathname>> whose missing      *)
(*     parts are ""; a parsed URL object is a record.  NewURL parses,      *)
(*     URLToString serialises.                                             *)
(*   - A Headers container is a function from lower-cased header names to  *)
(*     optional values.                                                    *)
(*   - A throwing function returns Ok(v) or Throw(e).                      *)
(***************************************************************************)
EXTENDS Integers, Sequences, FiniteSets, TLC

VARIABLES
  input,           \* the arguments of the call: [url, method, body, redirect, headers,
                   \* request]; request is None for fetch(url, init), Some(R) for
                   \* fetch(R, init), the other fields being those of init
  pc,              \* "start" | "awaiting" | "settled" | "thrown"
  promise,         \* [state: "pending" | "fulfilled" | "rejected", reason]
  response,        \* None, or Some(the Response the promise was resolved with)
  redirect,        \* the redirect mode of the call
  initBody,        \* the body input, kept to re-extract on redirects
  requestUrl,      \* URL of the current hop
  requestBody,     \* BodyState of the current hop
  redirects,       \* the redirect counter
  requestHeaders,  \* the Headers sent, mutated across hops
  requestOptions,  \* the http.RequestOptions object, mutated across hops
  nrequests,       \* number of protocol.request() calls made so far
  outgoing,        \* None, or Some(the request last issued, as sent)
  nresponses,      \* number of 'response' events handled so far
  incoming,        \* None, or Some(the response event last handled)
  decoders,        \* the content decoders constructed so far, in order
  random,          \* what randomBytes gives to the step being taken
  signal,          \* None, or Some(the AbortSignal the call listens to)
  aborted,         \* the AbortSignals that have aborted
  listeners,       \* number of `destroy` listeners of the call on its signal
  bodySource,      \* the stream given as request body, as its owner sees it
  reading,         \* the stream of the response that was delivered
  stale,           \* number of requests of superseded hops that are still open
  held             \* number of response streams opened, not handed to the
                   \* caller and not released

vars == <<input, pc, promise, response, redirect, initBody, requestUrl,
          requestBody, redirects, requestHeaders, requestOptions, nrequests,
          outgoing, nresponses, incoming, decoders, random, signal, aborted,
          listeners, bodySource, reading, stale, held>>

None == <<>>
Some(x) == <<x>>

Ok(v) == [ok |-> TRUE, value |-> v]
Throw(e) == [ok |-> FALSE, error |-> e]

----------------------------------------------------------------------------
(* Errors *)

NoArg == <<"", "", "", "", "">>
Error(name, text, arg) == [name |-> name, text |-> text, arg |-> arg]
NoReason == Error("", "", NoArg)

\* The reason of an AbortSignal aborted without one, a DOMException, and the
\* error node:http destroys a request with when the signal of its options
\* aborts.
SignalReason == Error("AbortError", "This operation was aborted", NoArg)
AbortError == Error("AbortError", "The operation was aborted", NoArg)

MsgRedirectModeError == "URI requested responds with a redirect, redirect mode is set to error"
MsgMaxRedirect == "maximum redirect reached at: "
MsgRedirectScheme == "URL scheme must be a HTTP(S) scheme"
MsgStreamedBody == "Cannot follow redirect with a streamed body"
MsgInvalidURL == "Invalid URL"
MsgRedirectOption == "Request constructor: is not an accepted type. Expected one of follow, manual, error."
MsgMethod == "Failed to construct 'Request': HTTP method is unsupported."
MsgScheme == "URL scheme is not supported."
MsgEngine == "engine error"
MsgBodyOnGet == "Request with GET/HEAD method cannot have body."

----------------------------------------------------------------------------
(* URLs *)

DefaultPort(protocol) ==
  CASE protocol = "http:" -> "80"
    [] protocol = "https:" -> "443"
    [] protocol = "ftp:" -> "21"
    [] OTHER -> ""

NoBase == None

\* Whether `new URL(str, base)` returns (TRUE) or throws a TypeError (FALSE).
CanParse(str, base) ==
  /\ str[3] # "["
  /\ str[1] # "" \/ base # NoBase
  /\ str[1] # "" => str[3] # ""

\* `new URL(str, base)` for a string it can parse.
NewURL(str, base) ==
  IF str[1] # ""
  THEN [protocol |-> str[1], username |-> str[2], hostname |-> str[3],
        port |-> IF str[4] = DefaultPort(str[1]) THEN "" ELSE str[4],
        pathname |-> IF str[5] = "" THEN "/" ELSE str[5]]
  ELSE IF str[3] # ""
  THEN [protocol |-> base[1].protocol, username |-> str[2], hostname |-> str[3],
        port |-> IF str[4] = DefaultPort(base[1].protocol) THEN "" ELSE str[4],
        pathname |-> IF str[5] = "" THEN "/" ELSE str[5]]
  ELSE [base[1] EXCEPT !.pathname = str[5]]

URLToString(u) == <<u.protocol, u.username, u.hostname, u.port, u.pathname>>

----------------------------------------------------------------------------
(* Headers *)

HeaderNames ==
  {"accept", "content-type", "content-length", "location", "content-encoding"}

LowerCase(s) ==
  CASE s = "Accept" -> "accept"
    [] s = "Content-Type" -> "content-type"
    [] s = "Content-Length" -> "content-length"
    [] s = "Location" -> "location"
    [] s = "Content-Encoding" -> "content-encoding"
    [] s = "GZip" -> "gzip"
    [] s = "X-GZIP" -> "x-gzip"
    [] s = "BR" -> "br"
    [] s = "Deflate" -> "deflate"
    [] s = "X-Deflate" -> "x-deflate"
    [] s = "Zstd" -> "zstd"
    [] OTHER -> s

ToUpperCase(s) ==
  CASE s = "get" -> "GET"
    [] s = "post" -> "POST"
    [] s = "put" -> "PUT"
    [] s = "head" -> "HEAD"
    [] s = "connect" -> "CONNECT"
    [] OTHER -> s

EmptyHeaders == [n \in HeaderNames |-> None]
HeadersGet(h, name) == h[LowerCase(name)]
HeadersHas(h, name) == h[LowerCase(name)] # None
HeadersSet(h, name, value) == [h EXCEPT ![LowerCase(name)] = Some(value)]
HeadersDelete(h, name) == [h EXCEPT ![LowerCase(name)] = None]

\* Decimal digits of a natural number: `${n}`.
RECURSIVE NumberToString(_)
NumberToString(n) ==
  IF n < 10 THEN <<n>> ELSE Append(NumberToString(n \div 10), n % 10)

\* rawHeaders is the engine's flat list <<k0, v0, k1, v1, ...>>.
RECURSIVE SetRawHeadersFrom(_, _, _)
SetRawHeadersFrom(headers, rawHeaders, i) ==
  IF i >= Len(rawHeaders) THEN headers
  ELSE SetRawHeadersFrom(HeadersSet(headers, rawHeaders[i], rawHeaders[i + 1]),
                         rawHeaders, i + 2)

headersOfRawHeaders(rawHeaders) == SetRawHeadersFrom(EmptyHeaders, rawHeaders, 1)

----------------------------------------------------------------------------
(* Body extraction (src/src/body.ts) *)

NullBody == [kind |-> "null", bytes |-> <<>>]

\* A body input is a record: kind names the sort of JavaScript value and
\* bytes is what the value holds (for a string, its UTF-8 encoding).  A Blob
\* has a type, a File also a name, a FormData has entries <<name, value>>
\* whose values are strings or files, and the stream of the form-data
\* package (MultipartStream) has a boundary and may know its length.  A
\* stream that was piped into a request is Ended (a web stream: Locked).

\* new TextEncoder().encode(s), for the strings of the model.
Utf8(s) ==
  CASE s = "a" ->
         <<97>>
    [] s = "b" ->
         <<98>>
    [] s = "1" ->
         <<49>>
    [] s = "2" ->
         <<50>>
    [] s = "blob" ->
         <<98, 108, 111, 98>>
    [] s = "f.txt" ->
         <<102, 46, 116, 120, 116>>
    [] s = "text/x" ->
         <<116, 101, 120, 116, 47, 120>>
    [] s = "application/octet-stream" ->
         <<97, 112, 112, 108, 105, 99, 97, 116, 105, 111, 110, 47, 111, 99, 116, 101, 116, 45, 115, 116, 114, 101, 97, 109>>
    [] s = "formdata-0123456789abcdef" ->
         <<102, 111, 114, 109, 100, 97, 116, 97, 45, 48, 49, 50, 51, 52, 53, 54, 55, 56, 57, 97, 98, 99, 100, 101, 102>>
    [] s = "formdata-fedcba9876543210" ->
         <<102, 111, 114, 109, 100, 97, 116, 97, 45, 102, 101, 100, 99, 98, 97, 57, 56, 55, 54, 53, 52, 51, 50, 49, 48>>
    [] s = "formdata-poly" ->
         <<102, 111, 114, 109, 100, 97, 116, 97, 45, 112, 111, 108, 121>>
    [] s = "Content-Disposition: form-data; name=\"" ->
         <<67, 111, 110, 116, 101, 110, 116, 45, 68, 105, 115, 112, 111, 115, 105, 116, 105, 111, 110, 58, 32, 102, 111, 114, 109, 45, 100, 97, 116, 97, 59, 32, 110, 97, 109, 101, 61, 34>>
    [] s = "\"" ->
         <<34>>
    [] s = "; filename=\"" ->
         <<59, 32, 102, 105, 108, 101, 110, 97, 109, 101, 61, 34>>
    [] s = "Content-Type: " ->
         <<67, 111, 110, 116, 101, 110, 116, 45, 84, 121, 112, 101, 58, 32>>

CRLF == <<13, 10>>
CRLF_LENGTH == 2
BOUNDARY == <<45, 45>>

\* The probes of body.ts lines 27-85 (and typeof, instanceof, isAnyArrayBuffer,
\* ArrayBuffer.isView) that a value of each kind satisfies.
ProbesOf(object) ==
  CASE object.kind = "string" -> {"string"}
    [] object.kind = "URLSearchParams" -> {"URLSearchParams", "Iterable"}
    [] object.kind \in {"Blob", "File"} -> {"Blob"}
    [] object.kind = "Uint8Array" -> {"Uint8Array", "ArrayBufferView", "Iterable"}
    [] object.kind = "ArrayBuffer" -> {"AnyArrayBuffer"}
    [] object.kind = "DataView" -> {"ArrayBufferView"}
    [] object.kind = "ReadableStream" -> {"ReadableStream", "Iterable"}
    [] object.kind = "ReadableStreamLocked" -> {"ReadableStream", "Iterable"}
    [] object.kind = "FormData" -> {"FormData", "Iterable"}
    [] object.kind = "MultipartStream" ->
         {"MultipartFormDataStream", "Readable", "Iterable"}
    [] object.kind = "MultipartStreamEnded" -> {"Iterable"}
    [] object.kind = "Readable" -> {"Readable", "Iterable"}
    [] object.kind = "ReadableEnded" -> {"Iterable"}
    [] object.kind = "Iterable" -> {"Iterable"}
    [] OTHER -> {}

\* Mutant of ProbeOrder: a native stream is recognised before a multipart one.
ProbeOrder_ReadableFirst ==
  <<"string", "URLSearchParams", "Blob", "Uint8Array", "AnyArrayBuffer",
    "ArrayBufferView", "ReadableStream", "FormData", "Readable",
    "MultipartFormDataStream", "Iterable">>

\* The order of the tests of extractBody, body.ts lines 143-185.
ProbeOrder ==
  <<"string", "URLSearchParams", "Blob", "Uint8Array", "AnyArrayBuffer",
    "ArrayBufferView", "ReadableStream", "FormData", "MultipartFormDataStream",
    "Readable", "Iterable">>

\* The branch of extractBody that handles a non-null value: the first probe
\* of the order that the value satisfies, or the final else.
classify(object) ==
  IF \E i \in 1..Len(ProbeOrder) : ProbeOrder[i] \in ProbesOf(object)
  THEN ProbeOrder[CHOOSE i \in 1..Len(ProbeOrder) :
                    /\ ProbeOrder[i] \in ProbesOf(object)
                    /\ \A j \in 1..(i - 1) : ProbeOrder[j] \notin ProbesOf(object)]
  ELSE "other"

isBlob(object) == "Blob" \in ProbesOf(object)

\* body.ts lines 90-102
getFormHeader(boundary, name, field) ==
  BOUNDARY \o Utf8(boundary) \o CRLF
    \o Utf8("Content-Disposition: form-data; name=\"") \o Utf8(name) \o Utf8("\"")
    \o (IF isBlob(field)
        THEN Utf8("; filename=\"")
               \o Utf8(IF field.kind = "File" THEN field.name ELSE "blob")
               \o Utf8("\"") \o CRLF
               \o Utf8("Content-Type: ")
               \o Utf8(IF field.type # "" THEN field.type
                       ELSE "application/octet-stream")
        ELSE <<>>)
    \o CRLF \o CRLF

\* body.ts lines 104-105
getFormFooter(boundary) ==
  BOUNDARY \o Utf8(boundary) \o BOUNDARY \o CRLF \o CRLF

\* Mutant of entryLength: the CRLF that ends an entry is not counted.
entryLength_NoCRLF(boundary, name, value) ==
  Len(getFormHeader(boundary, name, value)) + Len(value.bytes)

\* body.ts lines 110-113: the summand of one entry (value.size of a blob,
\* Buffer.byteLength of a string, are the number of its bytes).
entryLength(boundary, name, value) ==
  Len(getFormHeader(boundary, name, value)) + Len(value.bytes) + CRLF_LENGTH

\* body.ts lines 107-115
RECURSIVE getFormDataLengthFrom(_, _, _)
getFormDataLengthFrom(entries, boundary, i) ==
  IF i > Len(entries) THEN 0
  ELSE entryLength(boundary, entries[i][1], entries[i][2])
         + getFormDataLengthFrom(entries, boundary, i + 1)

getFormDataLength(form, boundary) ==
  Len(getFormFooter(boundary)) + getFormDataLengthFrom(form.entries, boundary, 1)

\* body.ts lines 117-132: the bytes the generator yields, in order.
RECURSIVE generatorOfFormDataFrom(_, _, _)
generatorOfFormDataFrom(entries, boundary, i) ==
  IF i > Len(entries) THEN getFormFooter(boundary)
  ELSE getFormHeader(boundary, entries[i][1], entries[i][2])
         \o entries[i][2].bytes \o CRLF
         \o generatorOfFormDataFrom(entries, boundary, i + 1)

generatorOfFormData(form, boundary) ==
  generatorOfFormDataFrom(form.entries, boundary, 1)

\* body.ts lines 87-88: the boundary that randomBytes gives in this step.
makeFormBoundary == random

\* Mutant of blobType: the type of a blob is passed on even when empty.
blobType_AsIs(object) == Some(object.type)

\* body.ts line 155: object.type || null
blobType(object) == IF object.type # "" THEN Some(object.type) ELSE None

\* Mutant of isNullish: a value with no bytes in it counts as no body.
isNullish_Empty(object) == object.kind = "null" \/ object.bytes = <<>>

\* body.ts line 140: `object == null`
isNullish(object) == object.kind = "null"

\* body.ts lines 136-198.  A multipart content type is <<prefix, boundary>>.
extractBody(object) ==
  IF isNullish(object)
  THEN [contentLength |-> Some(0), contentType |-> None, body |-> NullBody]
  ELSE
    CASE classify(object) = "string" ->
           [contentLength |-> Some(Len(object.bytes)),
            contentType |-> Some("text/plain;charset=UTF-8"),
            body |-> [kind |-> "Uint8Array", bytes |-> object.bytes]]
      [] classify(object) = "URLSearchParams" ->
           [contentLength |-> Some(Len(object.bytes)),
            contentType |-> Some("application/x-www-form-urlencoded;charset=UTF-8"),
            body |-> [kind |-> "Uint8Array", bytes |-> object.bytes]]
      [] classify(object) = "Blob" ->
           [contentLength |-> Some(Len(object.bytes)),
            contentType |-> blobType(object),
            body |-> [kind |-> "ReadableStream", bytes |-> object.bytes]]
      [] classify(object) \in {"Uint8Array", "AnyArrayBuffer", "ArrayBufferView"} ->
           [contentLength |-> Some(Len(object.bytes)), contentType |-> None,
            body |-> [kind |-> "Uint8Array", bytes |-> object.bytes]]
      [] classify(object) = "ReadableStream" ->
           [contentLength |-> None, contentType |-> None,
            body |-> [kind |-> object.kind, bytes |-> object.bytes]]
      [] classify(object) = "FormData" ->
           [contentLength |-> Some(getFormDataLength(object, makeFormBoundary)),
            contentType |-> Some(<<"multipart/form-data; boundary=", makeFormBoundary>>),
            body |-> [kind |-> "Readable",
                      bytes |-> generatorOfFormData(object, makeFormBoundary)]]
      [] classify(object) = "MultipartFormDataStream" ->
           [contentLength |-> IF object.knownLength THEN Some(Len(object.bytes))
                              ELSE None,
            contentType |-> Some(<<"multipart/form-data; boundary=", object.boundary>>),
            body |-> [kind |-> "Readable", bytes |-> object.bytes]]
      [] classify(object) = "Readable" ->
           [contentLength |-> None, contentType |-> None,
            body |-> [kind |-> "Readable", bytes |-> object.bytes]]
      [] classify(object) = "Iterable" ->
           [contentLength |-> None, contentType |-> None,
            body |-> [kind |-> "Readable", bytes |-> object.bytes]]
      [] classify(object) = "other" ->
           [contentLength |-> Some(Len(object.bytes)),
            contentType |-> Some("text/plain;charset=UTF-8"),
            body |-> [kind |-> "Uint8Array", bytes |-> object.bytes]]

\* The value a stream object has become once it was piped into a request:
\* a native stream has ended, a web stream is locked, and neither holds
\* bytes any more.  Other values are read afresh every time.
Piped(object) ==
  CASE object.kind = "Readable" -> [kind |-> "ReadableEnded", bytes |-> <<>>]
    [] object.kind = "MultipartStream" ->
         [object EXCEPT !.kind = "MultipartStreamEnded", !.bytes = <<>>]
    [] object.kind = "ReadableStream" ->
         [kind |-> "ReadableStreamLocked", bytes |-> <<>>]
    [] OTHER -> object

----------------------------------------------------------------------------
(* Content decoders (encoding.ts) *)

\* A body on the wire is a sequence of bytes.  The codings are modelled by
\* their framing: a coded body is a header that identifies the coding,
\* followed by the data; decoding checks the header and strips it.
GzipHeader == <<31, 139>>
ZlibHeader == <<120>>
RawDeflateHeader == <<203>>
BrotliHeader == <<27>>

StartsWith(bytes, header) ==
  Len(bytes) >= Len(header) /\ SubSeq(bytes, 1, Len(header)) = header

Strip(bytes, header) ==
  IF bytes = <<>> THEN Ok(<<>>)
  ELSE IF StartsWith(bytes, header)
  THEN Ok(SubSeq(bytes, Len(header) + 1, Len(bytes)))
  ELSE Throw(Error("Error", "incorrect header check", NoArg))

\* InflateStream._transform, encoding.ts lines 17-36: the low nibble of the
\* first byte selects zlib-wrapped or raw deflate.
InflateStream(bytes) ==
  IF bytes = <<>> THEN Ok(<<>>)
  ELSE IF bytes[1] % 16 = 8 THEN Strip(bytes, ZlibHeader)
  ELSE Strip(bytes, RawDeflateHeader)

\* Mutant of createContentDecoder: the x- aliases are not recognised.
createContentDecoder_NoAlias(encoding) ==
  CASE encoding = "br" -> "BrotliDecompress"
    [] encoding = "gzip" -> "Gunzip"
    [] encoding = "deflate" -> "InflateStream"
    [] OTHER -> "PassThrough"

\* encoding.ts lines 47-70
createContentDecoder(encoding) ==
  CASE encoding = "br" -> "BrotliDecompress"
    [] encoding \in {"gzip", "x-gzip"} -> "Gunzip"
    [] encoding \in {"deflate", "x-deflate"} -> "InflateStream"
    [] OTHER -> "PassThrough"

\* What a decoder makes of the bytes piped into it.
Decode(decoder, bytes) ==
  CASE decoder = "BrotliDecompress" -> Strip(bytes, BrotliHeader)
    [] decoder = "Gunzip" -> Strip(bytes, GzipHeader)
    [] decoder = "InflateStream" -> InflateStream(bytes)
    [] decoder = "PassThrough" -> Ok(bytes)

\* The body of a Response: null, or a stream reading `source` through the
\* decoder, if any.
NullStream == [kind |-> "null"]
Stream(source, decoder) == [kind |-> "stream", source |-> source, decoder |-> decoder]

\* The bytes read from the body of a Response.
ReadBody(body) ==
  IF body.kind = "null" THEN Ok(<<>>)
  ELSE IF body.decoder = None THEN Ok(body.source)
  ELSE Decode(body.decoder[1], body.source)

----------------------------------------------------------------------------
(* Validators (src/src/fetch.ts) *)

MAX_REDIRECTS == 20

toRedirectOption(r) ==
  IF r = None THEN Ok("follow")
  ELSE IF r[1] \in {"follow", "manual", "error"} THEN Ok(r[1])
  ELSE Throw(Error("TypeError", MsgRedirectOption, <<r[1], "", "", "", "">>))

methodToHttpOption(method) ==
  IF method # None /\ method[1] \in {"CONNECT", "TRACE", "TRACK"}
  THEN Throw(Error("TypeError", MsgMethod, <<method[1], "", "", "", "">>))
  ELSE Ok(IF method # None /\ method[1] # "" THEN ToUpperCase(method[1]) ELSE "GET")

\* node:url urlToHttpOptions: port and auth are present only when the URL has them.
NodeUrlToHttpOptions(u) ==
  LET keys == {"protocol", "hostname", "path"}
                \cup (IF u.port # "" THEN {"port"} ELSE {})
                \cup (IF u.username # "" THEN {"auth"} ELSE {})
  IN [k \in keys |->
        CASE k = "protocol" -> u.protocol
          [] k = "hostname" -> u.hostname
          [] k = "path" -> u.pathname
          [] k = "port" -> u.port
          [] k = "auth" -> u.username]

urlToHttpOptions(u) ==
  IF u.protocol \in {"http:", "https:"}
  THEN Ok(NodeUrlToHttpOptions(u))
  ELSE Throw(Error("TypeError", MsgScheme, <<u.protocol, "", "", "", "">>))

\* Object.assign(target, source)
ObjectAssign(target, source) ==
  [k \in DOMAIN target \cup DOMAIN source |->
     IF k \in DOMAIN source THEN source[k] ELSE target[k]]

isRedirectCode(code) == code \in {301, 302, 303, 307, 308}

\* Mutant of createResponse: the redirected field is never overridden.
createResponse_NotRedirected(body, init, params) ==
  [status |-> init.status, headers |-> init.headers, body |-> body,
   url |-> params.url, type |-> "default", redirected |-> FALSE]

\* fetch.ts lines 88-104
createResponse(body, init, params) ==
  [status |-> init.status,
   headers |-> init.headers,
   body |-> body,
   url |-> params.url,
   type |-> IF params.type # "default" THEN params.type ELSE "default",
   redirected |-> IF params.redirected THEN params.redirected ELSE FALSE]

----------------------------------------------------------------------------
(* The call (src/src/fetch.ts, _fetch and _call) *)

\* The boundaries randomBytes may give.  Only a FormData body draws one.
Boundaries == {"formdata-0123456789abcdef", "formdata-fedcba9876543210"}

RandomValues ==
  IF input.body.kind = "FormData" THEN Boundaries
  ELSE {"formdata-0123456789abcdef"}

\* The program state as one record, threaded through a handler's statements.
State ==
  [pc |-> pc, promise |-> promise, response |-> response, redirect |-> redirect,
   initBody |-> initBody, requestUrl |-> requestUrl, requestBody |-> requestBody,
   redirects |-> redirects, requestHeaders |-> requestHeaders,
   requestOptions |-> requestOptions, nrequests |-> nrequests,
   outgoing |-> outgoing, nresponses |-> nresponses, incoming |-> incoming,
   decoders |-> decoders, signal |-> signal, aborted |-> aborted,
   listeners |-> listeners, bodySource |-> bodySource,
   reading |-> reading, stale |-> stale, held |-> held]

Becomes(s) ==
  /\ pc' = s.pc
  /\ promise' = s.promise
  /\ response' = s.response
  /\ redirect' = s.redirect
  /\ initBody' = s.initBody
  /\ requestUrl' = s.requestUrl
  /\ requestBody' = s.requestBody
  /\ redirects' = s.redirects
  /\ requestHeaders' = s.requestHeaders
  /\ requestOptions' = s.requestOptions
  /\ nrequests' = s.nrequests
  /\ outgoing' = s.outgoing
  /\ nresponses' = s.nresponses
  /\ incoming' = s.incoming
  /\ decoders' = s.decoders
  /\ random' \in RandomValues
  /\ signal' = s.signal
  /\ aborted' = s.aborted
  /\ listeners' = s.listeners
  /\ bodySource' = s.bodySource
  /\ reading' = s.reading
  /\ stale' = s.stale
  /\ held' = s.held

\* Settling the promise of `new Promise(_call)`: only the first settlement counts.
resolve(s, value) ==
  IF s.promise.state = "pending"
  THEN [s EXCEPT !.promise = [state |-> "fulfilled", reason |-> NoReason],
                 !.response = Some(value)]
  ELSE s

\* Mutant of reject: the last settlement counts.
reject_Last(s, reason) ==
  [s EXCEPT !.promise = [state |-> "rejected", reason |-> reason]]

reject(s, reason) ==
  IF s.promise.state = "pending"
  THEN [s EXCEPT !.promise = [state |-> "rejected", reason |-> reason]]
  ELSE s

\* Mutant of finalizeHeaders: a Content-Length given by the caller is kept.
finalizeHeaders_CallerLength(headers, body, method) ==
  LET h1 == IF ~HeadersHas(headers, "Accept")
            THEN HeadersSet(headers, "Accept", "*/*") ELSE headers
      h2 == IF body.contentType # None
            THEN HeadersSet(h1, "Content-Type", body.contentType[1]) ELSE h1
  IN IF HeadersHas(headers, "Content-Length") THEN h2
     ELSE IF body.body.kind = "null" /\ method \in {"POST", "PUT"}
     THEN HeadersSet(h2, "Content-Length", <<0>>)
     ELSE IF body.body.kind # "null" /\ body.contentLength # None
     THEN HeadersSet(h2, "Content-Length", NumberToString(body.contentLength[1]))
     ELSE h2

\* Request header finalisation, fetch.ts lines 234-242.
finalizeHeaders(headers, body, method) ==
  LET h1 == IF ~HeadersHas(headers, "Accept")
            THEN HeadersSet(headers, "Accept", "*/*") ELSE headers
      h2 == IF body.contentType # None
            THEN HeadersSet(h1, "Content-Type", body.contentType[1]) ELSE h1
  IN IF body.body.kind = "null" /\ method \in {"POST", "PUT"}
     THEN HeadersSet(h2, "Content-Length", <<0>>)
     ELSE IF body.body.kind # "null" /\ body.contentLength # None
     THEN HeadersSet(h2, "Content-Length", NumberToString(body.contentLength[1]))
     ELSE h2

\* The stream given as request body: untouched, piped into the request of the
\* current hop (fetch.ts lines 251-258), read to its end, or destroyed.
NoSource == [state |-> "idle", error |-> None]
Piping == [state |-> "piping", error |-> None]

\* The stream of the delivered response: the bytes the engine has yet to
\* emit, the bytes piped so far, the inflate stream InflateStream has made,
\* the bytes that have come out and the error the stream was destroyed with.
NotReading ==
  [state |-> "none", flowing |-> FALSE, decoder |-> None, remaining |-> <<>>,
   piped |-> <<>>, inflate |-> None, chunks |-> 0, output |-> <<>>,
   error |-> None]

\* `signal` in the options of http.request: a request made with a signal that
\* has aborted is destroyed as it is constructed.
destroyedBy(s) ==
  IF s.signal # None /\ s.signal[1] \in s.aborted THEN Some(AbortError) ELSE None

\* _call up to the point where it waits for the engine: one request is issued
\* with the current options, the finalised headers and the current body.  The
\* request of the hop before, if any, is left as it is, with its listeners.
call(s) ==
  LET method == s.requestOptions["method"]
      headers == finalizeHeaders(s.requestHeaders, s.requestBody, method)
      t == [s EXCEPT !.requestHeaders = headers,
                     !.nrequests = @ + 1,
                     !.stale = IF s.outgoing # None THEN @ + 1 ELSE @,
                     !.outgoing = Some([options |-> s.requestOptions,
                                        headers |-> headers,
                                        body |-> s.requestBody.body,
                                        destroyed |-> destroyedBy(s)])]
  IN IF s.requestBody.body.kind = "ReadableStreamLocked"
     THEN [t EXCEPT !.pc = "thrown"]    \* Readable.fromWeb throws on a locked stream
     ELSE IF s.requestBody.body.kind \in {"Readable", "ReadableStream"}
     THEN [t EXCEPT !.pc = "awaiting", !.initBody = Piped(s.initBody),
                    !.bodySource = Piping]
     ELSE [t EXCEPT !.pc = "awaiting"]

\* fetch.ts line 167 (after the increment)
exceedsMaxRedirects(n) == n > MAX_REDIRECTS

\* Mutant of isHttpProtocol: the scheme of the redirect target is not checked.
isHttpProtocol_Unchecked(protocol) == TRUE

\* fetch.ts lines 171-172
isHttpProtocol(protocol) == protocol \in {"http:", "https:"}

\* Mutant of rewritesToGet: every 301/302 is rewritten, whatever the method.
rewritesToGet_AnyMethod(status, method) == status \in {301, 302, 303}

\* fetch.ts lines 180-181: the redirects that turn the request into a body-less GET
rewritesToGet(status, method) ==
  status = 303 \/ (status \in {301, 302} /\ method = "POST")

\* Mutant of isStreamedBody: a body of unknown length is replayed like any other.
isStreamedBody_Never(bodyState) == FALSE

\* fetch.ts lines 187-188: a body whose length is unknown cannot be replayed
isStreamedBody(bodyState) ==
  bodyState.body.kind # "null" /\ bodyState.contentLength = None

\* Mutant of dropLengthHeader: the Content-Length of the dropped body is kept.
dropLengthHeader_Kept(headers) == headers

\* fetch.ts line 185
dropLengthHeader(headers) == HeadersDelete(headers, "Content-Length")

\* Object.assign(requestOptions, urlToHttpOptions((requestUrl = locationURL)))
\* followed by the next _call, fetch.ts lines 196-200.
redirectTo(s, locationURL) ==
  LET o == urlToHttpOptions(locationURL)
  IN IF ~o.ok
     THEN [s EXCEPT !.requestUrl = locationURL, !.pc = "thrown"]
     ELSE call([s EXCEPT !.requestUrl = locationURL,
                         !.requestOptions = ObjectAssign(s.requestOptions, o.value)])

\* The body of a followed redirect, fetch.ts lines 179-200.
followRedirect(s, status, method, locationURL) ==
  IF rewritesToGet(status, method)
  THEN redirectTo([s EXCEPT
         !.requestBody = extractBody(NullBody),
         !.requestOptions = [s.requestOptions EXCEPT !["method"] = "GET"],
         !.requestHeaders = dropLengthHeader(s.requestHeaders)], locationURL)
  ELSE IF isStreamedBody(s.requestBody)
  THEN [reject(s, Error("Error", MsgStreamedBody, NoArg)) EXCEPT !.pc = "settled"]
  ELSE redirectTo([s EXCEPT !.requestBody = extractBody(s.initBody)], locationURL)

\* Mutant of responseParams: the Response reports the URL the call was made with.
responseParams_InitialUrl(url, n) ==
  [type |-> "default", url |-> URLToString(NewURL(input.url, NoBase)),
   redirected |-> n > 0]

\* fetch.ts lines 225-227: the fields forced onto the Response
responseParams(url, n) ==
  [type |-> "default", url |-> URLToString(url), redirected |-> n > 0]

\* Mutant of hasNullBody: only the status makes the body null.
hasNullBody_StatusOnly(method, status) == status \in {204, 304}

\* fetch.ts line 216
hasNullBody(method, status) == method = "HEAD" \/ status \in {204, 304}

\* Mutant of encodingOf: the value is taken as the server wrote it.
encodingOf_AsSent(headers) == HeadersGet(headers, "Content-Encoding")

\* fetch.ts line 215: init.headers.get('Content-Encoding')?.toLowerCase()
encodingOf(headers) ==
  IF HeadersGet(headers, "Content-Encoding") = None THEN None
  ELSE Some(LowerCase(HeadersGet(headers, "Content-Encoding")[1]))

\* Whether `new Response(body, init)` returns: the status must lie in
\* 200..599 and a null-body status takes no body.
responseInitOk(body, init) ==
  /\ init.status >= 200 /\ init.status <= 599
  /\ body.kind # "null" => init.status \notin {101, 103, 204, 205, 304}

\* Delivery of the response, fetch.ts lines 204-229.
deliver(s, init, method) ==
  LET encoding == encodingOf(init.headers)
      decoded == ~hasNullBody(method, init.status) /\ encoding # None
      body == IF hasNullBody(method, init.status) THEN NullStream
              ELSE IF encoding # None
              THEN Stream(s.incoming[1].body, Some(createContentDecoder(encoding[1])))
              ELSE Stream(s.incoming[1].body, None)
      init2 == IF decoded
               THEN [init EXCEPT !.headers =
                       HeadersSet(init.headers, "Content-Encoding", encoding[1])]
               ELSE init
      t0 == IF decoded
            THEN [s EXCEPT !.decoders = Append(@, createContentDecoder(encoding[1]))]
            ELSE s
      t == [t0 EXCEPT
              !.held = @ - 1,
              !.listeners = IF s.signal # None THEN @ + 1 ELSE @,
              !.reading = [NotReading EXCEPT
                             !.state = "open",
                             !.flowing = body.kind # "null",
                             !.decoder = IF decoded THEN body.decoder ELSE None,
                             !.remaining = s.incoming[1].body]]
  IN IF ~responseInitOk(body, init2)
     THEN [t EXCEPT !.pc = "thrown"]    \* new Response throws out of the listener
     ELSE [resolve(t, createResponse(body, init2,
                                     responseParams(t.requestUrl, t.redirects)))
             EXCEPT !.pc = "settled"]

\* Mutant of resolveLocation: a missing Location resolves to the current URL.
resolveLocation_Defaulted(location, base) ==
  IF location # None THEN Some(NewURL(location[1], Some(base))) ELSE Some(base)

\* fetch.ts lines 154-155, for a Location that `new URL` accepts
resolveLocation(location, base) ==
  IF location # None THEN Some(NewURL(location[1], Some(base))) ELSE None

\* The 'response' listener of the current hop, fetch.ts lines 143-230.
onResponse(s0, statusCode, rawHeaders, wire) ==
  LET s == [s0 EXCEPT !.nresponses = @ + 1,
                      !.held = @ + 1,
                      !.incoming =
              Some([statusCode |-> statusCode, rawHeaders |-> rawHeaders,
                    body |-> wire])]
      method == s.requestOptions["method"]
      init == [status |-> statusCode, headers |-> headersOfRawHeaders(rawHeaders)]
      location == HeadersGet(init.headers, "Location")
  IN IF ~isRedirectCode(init.status) THEN deliver(s, init, method)
     ELSE IF location # None /\ ~CanParse(location[1], Some(s.requestUrl))
     THEN [s EXCEPT !.pc = "thrown"]    \* new URL throws out of the listener
     ELSE
       LET locationURL == resolveLocation(location, s.requestUrl)
       IN IF s.redirect = "error"
          THEN [reject(s, Error("Error", MsgRedirectModeError, NoArg))
                  EXCEPT !.pc = "settled"]
          ELSE IF s.redirect = "manual" /\ locationURL # None
          THEN deliver(s, [init EXCEPT !.headers =
                             HeadersSet(init.headers, "Location",
                                        URLToString(locationURL[1]))], method)
          ELSE IF s.redirect = "follow" /\ locationURL # None
          THEN LET t == [s EXCEPT !.redirects = @ + 1]
               IN IF exceedsMaxRedirects(t.redirects)
                  THEN [reject(t, Error("Error", MsgMaxRedirect,
                                        URLToString(t.requestUrl)))
                          EXCEPT !.pc = "settled"]
                  ELSE IF ~isHttpProtocol(locationURL[1].protocol)
                  THEN [reject(t, Error("Error", MsgRedirectScheme, NoArg))
                          EXCEPT !.pc = "settled"]
                  ELSE followRedirect(t, init.status, method, locationURL[1])
          ELSE deliver(s, init, method)

\* The 'error' listener of the request of the current hop, fetch.ts line 232,
\* and the callback of the pipeline that writes the body, lines 251-258: the
\* error is the one the request was destroyed with, or one of the engine, and
\* the pipeline destroys the stream it reads from with it.
onError(s) ==
  LET error == IF s.outgoing[1].destroyed # None THEN s.outgoing[1].destroyed[1]
               ELSE Error("Error", MsgEngine, NoArg)
      t == IF s.bodySource.state = "piping"
           THEN [s EXCEPT !.bodySource = [state |-> "errored", error |-> Some(error)]]
           ELSE s
  IN [reject(t, error) EXCEPT !.pc = "settled"]

\* The 'error' listener of the request of a superseded hop, fetch.ts line
\* 232, and the callback of its pipeline, lines 251-258: both hold the
\* `reject` of the call.
onStaleError(s) ==
  LET error == Error("Error", MsgEngine, NoArg)
      t == IF s.bodySource.state = "piping"
           THEN [s EXCEPT !.bodySource = [state |-> "errored", error |-> Some(error)]]
           ELSE s
  IN reject([t EXCEPT !.stale = @ - 1], error)

\* Mutant of variantOf: only the usual first byte of a zlib stream selects zlib.
variantOf_UsualHeader(b) == IF b = 120 THEN "Inflate" ELSE "InflateRaw"

\* InflateStream._transform, encoding.ts lines 24-27: createInflate or
\* createInflateRaw, by the low nibble of the first byte of the chunk.
variantOf(b) == IF b % 16 = 8 THEN "Inflate" ELSE "InflateRaw"

\* The framing each zlib engine expects.
headerOf(engine) ==
  CASE engine = "BrotliDecompress" -> BrotliHeader
    [] engine = "Gunzip" -> GzipHeader
    [] engine = "Inflate" -> ZlibHeader
    [] engine = "InflateRaw" -> RawDeflateHeader
    [] engine = "PassThrough" -> <<>>

\* What an engine has put out once `bytes` have been written to it.
written(engine, bytes) ==
  LET header == headerOf(engine)
      n == IF Len(bytes) < Len(header) THEN Len(bytes) ELSE Len(header)
  IN IF SubSeq(bytes, 1, n) = SubSeq(header, 1, n)
     THEN Ok(SubSeq(bytes, Len(header) + 1, Len(bytes)))
     ELSE Throw(Error("Error", "incorrect header check", NoArg))

\* The engine a decoder writes into: the one InflateStream has made, or the
\* decoder itself.
engineOf(r) ==
  IF r.decoder = Some("InflateStream") THEN r.inflate ELSE r.decoder

\* One chunk through the decoder.  InflateStream._transform, encoding.ts
\* lines 17-36: while there is no inflate stream an empty chunk is dropped
\* and the first chunk with a byte in it makes the stream; every chunk is
\* then written to the stream there is.
transform(r, chunk) ==
  LET r1 == IF r.decoder = Some("InflateStream") /\ r.inflate = None /\ chunk # <<>>
            THEN [r EXCEPT !.inflate = Some(variantOf(chunk[1]))]
            ELSE r
  IN IF engineOf(r1) = None THEN r1
     ELSE LET w == written(engineOf(r1)[1], r1.piped \o chunk)
          IN IF w.ok
             THEN [r1 EXCEPT !.piped = @ \o chunk, !.output = w.value]
             ELSE [r1 EXCEPT !.piped = @ \o chunk, !.state = "errored",
                             !.error = Some(w.error)]

\* The end of the input of the decoder.  InflateStream._final, encoding.ts
\* lines 38-44, ends the inflate stream there is and forgets it.  The
\* engines are made with finishFlush Z_SYNC_FLUSH (lines 51-66), so that an
\* input that stops short is no error.
final(r) == [r EXCEPT !.state = "ended", !.inflate = None]

\* `destroy`, fetch.ts lines 204-210: the abort listener of the delivered
\* response and the callback of the pipeline into the decoder.
destroy(s, reason) ==
  LET t == [s EXCEPT !.listeners = IF s.signal # None /\ @ > 0 THEN @ - 1 ELSE @]
      error == IF s.signal # None /\ s.signal[1] \in s.aborted
               THEN Some(SignalReason) ELSE reason
  IN IF reason = None THEN t
     ELSE reject([t EXCEPT !.reading =
                     IF @.state = "open"
                     THEN [@ EXCEPT !.state = "errored", !.error = error]
                     ELSE @],
                 error[1])

\* The response stream emits a chunk, the first k bytes it has left.
onData(s, k) ==
  LET chunk == SubSeq(s.reading.remaining, 1, k)
      r == [s.reading EXCEPT
              !.remaining = SubSeq(@, k + 1, Len(@)), !.chunks = @ + 1]
  IN IF r.decoder = None
     THEN [s EXCEPT !.reading = [r EXCEPT !.piped = @ \o chunk,
                                          !.output = @ \o chunk]]
     ELSE LET d == transform(r, chunk)
          IN IF d.state = "errored"
             THEN destroy([s EXCEPT !.reading = d], d.error)
             ELSE [s EXCEPT !.reading = d]

\* The response stream ends.  Without a decoder nothing of fetch.ts runs;
\* with one, the pipeline of line 217 calls `destroy` when it is done.
onEnd(s) ==
  IF s.reading.decoder = None
  THEN [s EXCEPT !.reading.state = "ended"]
  ELSE LET d == final(s.reading)
       IN destroy([s EXCEPT !.reading = d], d.error)

\* The connection fails while the body of the delivered response comes in:
\* the response stream is destroyed with the error, the request emits
\* 'error' (fetch.ts line 232), and the pipeline into the decoder, if there
\* is one, calls `destroy` with the error.
onTransportError(s) ==
  LET error == Error("Error", MsgEngine, NoArg)
      t == [s EXCEPT !.reading = [@ EXCEPT !.state = "errored", !.error = Some(error)]]
  IN reject(IF s.reading.decoder # None THEN destroy(t, Some(error)) ELSE t, error)

\* An AbortSignal aborts.  The listener node:http has on the signal of the
\* request options destroys a request that waits for its response; the
\* `destroy` listeners of the call, if any, run with the event.
abort(s, sig) ==
  LET s1 == [s EXCEPT !.aborted = @ \cup {sig}]
      s2 == IF s1.pc = "awaiting" /\ s1.outgoing[1].destroyed = None
            THEN [s1 EXCEPT !.outgoing = Some([@[1] EXCEPT !.destroyed = Some(AbortError)])]
            ELSE s1
  IN IF s.signal # Some(sig) THEN s1
     ELSE IF s2.listeners > 0 THEN destroy(s2, Some(SignalReason))
     ELSE s2

\* The stream given as request body ends: the request has been written.
bodySent(s) == [s EXCEPT !.bodySource.state = "ended"]

\* `new Headers(init)` for the caller's header list <<k0, v0, ...>>.
NewHeaders(list) == SetRawHeadersFrom(EmptyHeaders, list, 1)

\* `requestInit?.body || null`: a falsy body (the empty string) is no body.
initBodyOf(in) ==
  IF in.body.kind = "string" /\ in.body.bytes = <<>> THEN NullBody ELSE in.body

\* fetch.ts lines 79-80: the first argument is a Request.
isRequest(in) == in.request # None

\* Mutant of initHeadersOf: the headers of the Request are preferred.
initHeadersOf_RequestFirst(in) ==
  IF isRequest(in) THEN in.request[1].headers ELSE NewHeaders(in.headers)

\* `requestInit?.headers || (initFromRequest ? input.headers : undefined)`,
\* fetch.ts lines 123-125.  A Headers object is copied as it is.
initHeadersOf(in) ==
  IF in.headers # <<>> THEN NewHeaders(in.headers)
  ELSE IF isRequest(in) THEN in.request[1].headers
  ELSE EmptyHeaders

\* _fetch, fetch.ts lines 106-133 and 262: a throw rejects the returned promise.
fetch(s, in) ==
  LET fail(e) == [reject(s, e) EXCEPT !.pc = "settled"]
      initFromRequest == isRequest(in)
      initUrl == IF initFromRequest THEN in.request[1].url ELSE in.url
      body == IF initFromRequest THEN in.request[1].body ELSE initBodyOf(in)
      r == toRedirectOption(IF initFromRequest THEN Some(in.request[1].redirect)
                            ELSE in.redirect)
      sig == IF initFromRequest THEN Some(in.request[1].signal) ELSE in.signal
  IN IF ~r.ok THEN fail(r.error)
     ELSE IF ~CanParse(initUrl, NoBase)
     THEN fail(Error("TypeError", MsgInvalidURL, NoArg))
     ELSE
       LET u == NewURL(initUrl, NoBase)
           o == urlToHttpOptions(u)
           m == methodToHttpOption(IF initFromRequest
                                   THEN Some(in.request[1].method) ELSE in.method)
       IN IF ~o.ok THEN fail(o.error)
          ELSE IF ~m.ok THEN fail(m.error)
          ELSE call([s EXCEPT
                 !.signal = sig,
                 !.redirect = r.value,
                 !.initBody = body,
                 !.requestUrl = u,
                 !.requestBody = extractBody(body),
                 !.redirects = 0,
                 !.requestHeaders = initHeadersOf(in),
                 !.requestOptions =
                    ObjectAssign(o.value, [k \in {"method"} |-> m.value])])

\* The Request constructor of the host, re-exported by webstd.ts: the URL is
\* parsed and serialised, the method is normalised and the forbidden methods
\* are refused whatever their case, a body is not allowed on GET or HEAD, the
\* body becomes a web ReadableStream, the content type of the body is added
\* to the headers when the caller gave none, and the Request has an
\* AbortSignal of its own.
NewRequest(url, init) ==
  LET method == IF init.method = None THEN "GET" ELSE ToUpperCase(init.method[1])
      bodyType == extractBody(init.body).contentType
      headers == NewHeaders(init.headers)
  IN IF ~CanParse(url, NoBase)
     THEN Throw(Error("TypeError", MsgInvalidURL, NoArg))
     ELSE IF method \in {"CONNECT", "TRACE", "TRACK"}
     THEN Throw(Error("TypeError", MsgMethod, NoArg))
     ELSE IF init.redirect # None /\ init.redirect[1] \notin {"follow", "manual", "error"}
     THEN Throw(Error("TypeError", MsgRedirectOption, NoArg))
     ELSE IF init.body.kind # "null" /\ method \in {"GET", "HEAD"}
     THEN Throw(Error("TypeError", MsgBodyOnGet, NoArg))
     ELSE Ok([url |-> URLToString(NewURL(url, NoBase)),
              method |-> method,
              redirect |-> IF init.redirect = None THEN "follow" ELSE init.redirect[1],
              signal |-> "request",
              body |-> IF init.body.kind = "null" THEN NullBody
                       ELSE [kind |-> "ReadableStream", bytes |-> init.body.bytes],
              headers |-> IF bodyType # None /\ ~HeadersHas(headers, "Content-Type")
                          THEN HeadersSet(headers, "Content-Type", bodyType[1])
                          ELSE headers])

----------------------------------------------------------------------------
(* Inputs of the call and of the engine *)

InputUrls ==
  { <<"http:", "", "a", "8080", "/r">>,      \* http://a:8080/r
    <<"", "", "example.com", "", "/">>,      \* //example.com/
    <<"ftp:", "", "example.com", "", "/">> } \* ftp://example.com/

InputMethods == {None, Some("POST"), Some("PUT"), Some("CONNECT")}

\* Length of the string body of the call.
MaxBodyBytes == 3

BodyText == <<97, 61, 49, 38, 98, 61, 50, 38, 99, 61, 51>>   \* "a=1&b=2&c=3"

InputBodies ==
  { NullBody,
    [kind |-> "string", bytes |-> SubSeq(BodyText, 1, MaxBodyBytes)],
    [kind |-> "Readable", bytes |-> <<116>>] }

InputRedirects == {None, Some("manual"), Some("error"), Some("foobar")}

InputHeaders == { <<>>, <<"Content-Length", <<9, 9>> >> }

Inputs ==
  [url : InputUrls, method : InputMethods, body : InputBodies,
   redirect : InputRedirects, headers : InputHeaders, signal : {None}, request : {None}]

Statuses == {200, 204, 301, 302, 303, 307, 308}

Locations ==
  { <<"", "", "", "", "/inspect">>,          \* /inspect
    <<"http:", "", "b", "", "/inspect">>,    \* http://b/inspect
    <<"ftp:", "", "b", "", "/f">>,           \* ftp://b/f
    <<"http:", "", "[", "", "">> }           \* http://[  (not a URL)

RawHeaders == {<<>>} \cup {<<"Location", l>> : l \in Locations}

\* The data of the response bodies, "hi".
BodyData == <<104, 105>>

NoURL == [protocol |-> "", username |-> "", hostname |-> "", port |-> "",
          pathname |-> ""]

\* Calls with a Request, with conflicting headers and with methods in lower
\* case.
RequestUrl == <<"http:", "", "a", "8080", "/r">>    \* http://a:8080/r

StringBody == [kind |-> "string", bytes |-> SubSeq(BodyText, 1, MaxBodyBytes)]

RequestInits ==
  [method : {None, Some("POST")}, body : {NullBody, StringBody},
   redirect : {None, Some("error")},
   headers : { <<>>, <<"Content-Type", "text/x">>, <<"Content-Length", <<7>> >> }]

Requests ==
  { NewRequest(RequestUrl, ri).value :
      ri \in {i \in RequestInits : NewRequest(RequestUrl, i).ok} }

CallMethods == {None, Some("POST"), Some("PUT"), Some("connect")}

CallRedirects == {None, Some("manual"), Some("foobar")}

CallHeaders ==
  { <<>>, <<"Content-Type", "application/json">>, <<"Content-Length", <<9, 9>> >> }

CallInputs ==
  [url : InputUrls, method : CallMethods, body : {NullBody, StringBody},
   redirect : CallRedirects, headers : CallHeaders, signal : {None}, request : {None}]
  \cup
  [url : {RequestUrl}, method : CallMethods, body : {NullBody, StringBody},
   redirect : CallRedirects, headers : CallHeaders, signal : {None},
   request : {Some(rq) : rq \in Requests}]

CallStatuses == {200, 303, 307}

CallRawHeaders == { <<>>, <<"Location", <<"", "", "", "", "/inspect">> >> }

\* Number of requests of a call that the engine may answer with a redirect.
MaxAnsweredRedirects == 2

\* Calls whose responses are looked at.
ResponseInputs ==
  [url : {RequestUrl}, method : {None, Some("HEAD"), Some("POST")},
   body : {NullBody}, redirect : {None, Some("manual")}, headers : {<<>>},
   signal : {None}, request : {None}]

ResponseStatuses == {200, 204, 205, 302, 304}

Encodings ==
  {"gzip", "GZip", "x-gzip", "X-GZIP", "br", "BR", "deflate", "Deflate",
   "x-deflate", "zstd", "Zstd"}

EncodedRawHeaders ==
  {<<>>} \cup {<<"Content-Encoding", e>> : e \in Encodings}
    \cup {<<"Location", <<"", "", "", "", "/inspect">>, "Content-Encoding", "GZip">>}

Wires ==
  { BodyData, GzipHeader \o BodyData, ZlibHeader \o BodyData,
    RawDeflateHeader \o BodyData, BrotliHeader \o BodyData }

\* Calls with and without a signal, with and without a stream as body.
StreamRequests ==
  { NewRequest(RequestUrl, ri).value :
      ri \in [method : {None}, body : {NullBody}, redirect : {None}, headers : {<<>>}]
         \cup [method : {Some("POST")}, body : {StringBody}, redirect : {None},
               headers : {<<>>}] }

StreamInputs ==
  [url : {RequestUrl}, method : {None}, body : {NullBody}, redirect : {None},
   headers : {<<>>}, signal : {None, Some("init")}, request : {None}]
  \cup
  [url : {RequestUrl}, method : {Some("POST")},
   body : {[kind |-> "Readable", bytes |-> <<116>>]}, redirect : {None},
   headers : {<<>>}, signal : {None, Some("init")}, request : {None}]
  \cup
  [url : {RequestUrl}, method : {None}, body : {NullBody}, redirect : {None},
   headers : {<<>>}, signal : {None, Some("init")},
   request : {Some(rq) : rq \in StreamRequests}]

\* Calls that are redirected, with and without a body.
HopInputs ==
  [url : {RequestUrl}, method : {None, Some("POST")},
   body : {NullBody, StringBody, [kind |-> "Readable", bytes |-> <<116>>]},
   redirect : {None, Some("manual"), Some("error")}, headers : {<<>>},
   signal : {None}, request : {None}]

\* The AbortSignals of a call: the one of init and the one of the Request.
SignalsOf(in) ==
  (IF in.signal # None THEN {in.signal[1]} ELSE {})
    \cup (IF isRequest(in) THEN {in.request[1].signal} ELSE {})

StreamStatuses == {200, 204, 302}

StreamRawHeaders ==
  { <<>>, <<"Location", <<"", "", "", "", "/inspect">> >>,
    <<"Content-Encoding", "deflate">>, <<"Content-Encoding", "gzip">> }

StreamWires ==
  { BodyData, GzipHeader \o BodyData, ZlibHeader \o BodyData,
    RawDeflateHeader \o BodyData, <<88>> \o BodyData }

\* Number of chunks a response body comes in.
MaxChunks == 3

\* Calls with a body of every kind.
BodyBytes == SubSeq(BodyText, 1, MaxBodyBytes)

TextField == [kind |-> "string", bytes |-> Utf8("1")]
FileField == [kind |-> "File", bytes |-> Utf8("2"), type |-> "text/x", name |-> "f.txt"]
BlobField == [kind |-> "Blob", bytes |-> Utf8("2"), type |-> ""]

Forms ==
  { <<>>, << <<"a", TextField>> >>, << <<"a", TextField>>, <<"b", FileField>> >>,
    << <<"b", BlobField>> >> }

BodyInputs ==
  [kind : {"string", "URLSearchParams", "Uint8Array", "ArrayBuffer", "DataView",
           "ReadableStream", "Readable", "Iterable", "Other"},
   bytes : {BodyBytes}]
  \cup [kind : {"Uint8Array", "ReadableStream"}, bytes : {<<>>}]
  \cup [kind : {"Blob"}, bytes : {BodyBytes}, type : {"", "text/x"}]
  \cup [kind : {"FormData"}, bytes : {<<>>}, entries : Forms]
  \cup [kind : {"MultipartStream"},
        bytes : {generatorOfFormDataFrom(<< <<"a", TextField>> >>, "formdata-poly", 1)},
        boundary : {"formdata-poly"}, knownLength : BOOLEAN]

ExtractInputs ==
  [url : {RequestUrl}, method : {Some("POST")}, body : BodyInputs,
   redirect : {None}, headers : {<<>>}, signal : {None}, request : {None}]

----------------------------------------------------------------------------
(* The state machine *)

\* The state before the call.
Fresh ==
  /\ pc = "start"
  /\ promise = [state |-> "pending", reason |-> NoReason]
  /\ response = None
  /\ redirect = "follow"
  /\ initBody = NullBody
  /\ requestUrl = NoURL
  /\ requestBody = extractBody(NullBody)
  /\ redirects = 0
  /\ requestHeaders = EmptyHeaders
  /\ requestOptions = [k \in {"method"} |-> "GET"]
  /\ nrequests = 0
  /\ outgoing = None
  /\ nresponses = 0
  /\ incoming = None
  /\ decoders = <<>>
  /\ random \in RandomValues
  /\ signal = None
  /\ aborted = {}
  /\ listeners = 0
  /\ bodySource = NoSource
  /\ reading = NotReading
  /\ stale = 0
  /\ held = 0

Init == input \in Inputs /\ Fresh

\* The request of the current hop can be answered: a destroyed request gets
\* no response.
Answerable == pc = "awaiting" /\ outgoing[1].destroyed = None

\* fetch(input, init) is called.
Fetch ==
  /\ pc = "start"
  /\ Becomes(fetch(State, input))
  /\ UNCHANGED input

\* The engine emits 'response' on the request of the current hop.
OnResponse ==
  /\ Answerable
  /\ \E statusCode \in Statuses, rawHeaders \in RawHeaders :
       Becomes(onResponse(State, statusCode, rawHeaders, BodyData))
  /\ UNCHANGED input

\* The engine emits 'error' on the request of the current hop, fetch.ts line 232.
OnError ==
  /\ pc = "awaiting"
  /\ Becomes(onError(State))
  /\ UNCHANGED input

Next == Fetch \/ OnResponse \/ OnError

Spec == Init /\ [][Next]_vars

\* The calls of CallInputs, against an engine that answers the first
\* MaxAnsweredRedirects requests of a call with any of CallStatuses and every
\* later one with a status that is no redirect.
InitCall == input \in CallInputs /\ Fresh

OnResponseCall ==
  /\ Answerable
  /\ \E statusCode \in CallStatuses, rawHeaders \in CallRawHeaders :
       /\ isRedirectCode(statusCode) => nresponses < MaxAnsweredRedirects
       /\ Becomes(onResponse(State, statusCode, rawHeaders, BodyData))
  /\ UNCHANGED input

NextCall == Fetch \/ OnResponseCall \/ OnError

SpecCall == InitCall /\ [][NextCall]_vars

\* The calls of ExtractInputs, a POST with a body of every kind, against the
\* same engine.
InitExtract == input \in ExtractInputs /\ Fresh

SpecExtract == InitExtract /\ [][NextCall]_vars

\* The calls of ResponseInputs, against an engine whose responses carry a
\* Content-Encoding and a coded body.
InitResponse == input \in ResponseInputs /\ Fresh

OnResponseEncoded ==
  /\ Answerable
  /\ \E statusCode \in ResponseStatuses, rawHeaders \in EncodedRawHeaders,
        wire \in Wires :
       /\ isRedirectCode(statusCode) => nresponses < MaxAnsweredRedirects
       /\ Becomes(onResponse(State, statusCode, rawHeaders, wire))
  /\ UNCHANGED input

NextResponse == Fetch \/ OnResponseEncoded \/ OnError

SpecResponse == InitResponse /\ [][NextResponse]_vars

\* The calls of HopInputs, against an engine whose requests of superseded
\* hops may fail after the redirect was followed.
InitHops == input \in HopInputs /\ Fresh

OnStaleError ==
  /\ stale > 0
  /\ Becomes(onStaleError(State))
  /\ UNCHANGED input

NextHops == Fetch \/ OnResponseCall \/ OnError \/ OnStaleError

SpecHops == InitHops /\ [][NextHops]_vars

\* The calls of StreamInputs, whose signals may abort at any time, against an
\* engine that answers a request once its body has been written and emits
\* the body of the response in chunks.
InitStream == input \in StreamInputs /\ Fresh

OnResponseStream ==
  /\ Answerable
  /\ bodySource.state # "piping"
  /\ \E statusCode \in StreamStatuses, rawHeaders \in StreamRawHeaders,
        wire \in StreamWires :
       /\ isRedirectCode(statusCode) => nresponses < MaxAnsweredRedirects
       /\ Becomes(onResponse(State, statusCode, rawHeaders, wire))
  /\ UNCHANGED input

Abort ==
  /\ \E sig \in SignalsOf(input) \ aborted : Becomes(abort(State, sig))
  /\ UNCHANGED input

BodySent ==
  /\ pc = "awaiting"
  /\ outgoing[1].destroyed = None
  /\ bodySource.state = "piping"
  /\ Becomes(bodySent(State))
  /\ UNCHANGED input

OnData ==
  /\ reading.state = "open"
  /\ reading.flowing
  /\ reading.chunks < MaxChunks
  /\ \E k \in 0..Len(reading.remaining) : Becomes(onData(State, k))
  /\ UNCHANGED input

OnEnd ==
  /\ reading.state = "open"
  /\ reading.flowing
  /\ reading.remaining = <<>>
  /\ Becomes(onEnd(State))
  /\ UNCHANGED input

OnTransportError ==
  /\ reading.state = "open"
  /\ reading.flowing
  /\ Becomes(onTransportError(State))
  /\ UNCHANGED input

NextStream ==
  \/ Fetch \/ OnResponseStream \/ OnError \/ Abort \/ BodySent \/ OnData \/ OnEnd
  \/ OnTransportError

SpecStream == InitStream /\ [][NextStream]_vars

----------------------------------------------------------------------------
(* Observations used by the properties *)

StatusOf(inc) == inc[1].statusCode
LocationOf(inc) == HeadersGet(headersOfRawHeaders(inc[1].rawHeaders), "Location")
MethodOf(out) == out[1].options["method"]

\* This step handled a 'response' event.
ResponseHandled == nresponses' = nresponses + 1
\* This step handled a 'response' event by issuing the request of the next hop.
Followed == ResponseHandled /\ nrequests' = nrequests + 1

Rejected(p, text) == p.state = "rejected" /\ p.reason.text = text

----------------------------------------------------------------------------
(* Properties *)

\* C1: in follow mode at most 20 redirects are followed: when the response to
\* the 21st request is a redirect status with a Location, the call rejects
\* with 'maximum redirect reached at: <url>' and issues no further request, so
\* that no call ever issues more than 21 requests.
C1_MaxRedirects ==
  /\ [](nrequests <= MAX_REDIRECTS + 1)
  /\ [][(/\ ResponseHandled
         /\ redirect = "follow"
         /\ nrequests = MAX_REDIRECTS + 1
         /\ isRedirectCode(StatusOf(incoming'))
         /\ LocationOf(incoming') # None)
        => (/\ promise'.state = "rejected"
            /\ promise'.reason =
                 Error("Error", MsgMaxRedirect, URLToString(requestUrl))
            /\ nrequests' = nrequests)]_vars

\* C2: after following a 303, or a 301/302 whose current method is POST, the
\* next request has method GET, no body and no Content-Length header.
C2_RewrittenToGet ==
  [][(/\ Followed
      /\ \/ StatusOf(incoming') = 303
         \/ StatusOf(incoming') \in {301, 302} /\ MethodOf(outgoing) = "POST")
     => (/\ MethodOf(outgoing') = "GET"
         /\ outgoing'[1].body.kind = "null"
         /\ ~HeadersHas(outgoing'[1].headers, "Content-Length"))]_vars

C2_Witness ==
  /\ pc = "awaiting"
  /\ nrequests = 2
  /\ input.method = Some("POST")
  /\ input.body.kind = "string"
  /\ input.headers # <<>>
  /\ StatusOf(incoming) = 302
  /\ MethodOf(outgoing) = "GET"
  /\ outgoing[1].body.kind = "null"

\* C3: when a 307 or 308 is followed, or a 301/302 whose current method is not
\* POST, the next request keeps the method of the hop that was redirected.
C3_MethodKept ==
  [][(/\ Followed
      /\ \/ StatusOf(incoming') \in {307, 308}
         \/ StatusOf(incoming') \in {301, 302} /\ MethodOf(outgoing) # "POST")
     => MethodOf(outgoing') = MethodOf(outgoing)]_vars

C3_Witness ==
  /\ pc = "awaiting"
  /\ nrequests = 2
  /\ input.method = Some("POST")
  /\ StatusOf(incoming) = 307
  /\ MethodOf(outgoing) = "POST"
  /\ outgoing[1].body.bytes = input.body.bytes
  /\ input.body.kind = "string"

\* C4 (as claimed): in follow mode, when a redirect (redirect status with a
\* Location) that does not rewrite the request to GET arrives while the
\* current body is non-null with unknown content length, the call rejects with
\* 'Cannot follow redirect with a streamed body' and issues no further request.
C4_StreamedBodyRejected ==
  [][(/\ ResponseHandled
      /\ redirect = "follow"
      /\ isRedirectCode(StatusOf(incoming'))
      /\ LocationOf(incoming') # None
      /\ StatusOf(incoming') # 303
      /\ ~(StatusOf(incoming') \in {301, 302} /\ MethodOf(outgoing) = "POST")
      /\ outgoing[1].body.kind # "null"
      /\ requestBody.contentLength = None)
     => (/\ Rejected(promise', MsgStreamedBody)
         /\ nrequests' = nrequests)]_vars

\* C4 (amended): the same, for a redirect whose Location resolves to an
\* http: or https: URL and that arrives before 20 redirects have been
\* followed (the redirect limit and the scheme check are applied first).
C4_StreamedBodyRejectedHttp ==
  [][(/\ ResponseHandled
      /\ redirect = "follow"
      /\ redirects < MAX_REDIRECTS
      /\ isRedirectCode(StatusOf(incoming'))
      /\ LocationOf(incoming') # None
      /\ CanParse(LocationOf(incoming')[1], Some(requestUrl))
      /\ NewURL(LocationOf(incoming')[1], Some(requestUrl)).protocol
           \in {"http:", "https:"}
      /\ StatusOf(incoming') # 303
      /\ ~(StatusOf(incoming') \in {301, 302} /\ MethodOf(outgoing) = "POST")
      /\ outgoing[1].body.kind # "null"
      /\ requestBody.contentLength = None)
     => (/\ Rejected(promise', MsgStreamedBody)
         /\ nrequests' = nrequests)]_vars

C4_Witness ==
  /\ Rejected(promise, MsgStreamedBody)
  /\ input.body.kind = "Readable"
  /\ input.method = Some("POST")
  /\ StatusOf(incoming) = 307
  /\ nrequests = 1
  /\ outgoing[1].body.kind = "Readable"

\* The redirect of the response event handled in this step resolves to a URL
\* whose scheme is neither http: nor https:.
NonHttpRedirectHandled ==
  /\ ResponseHandled
  /\ redirect = "follow"
  /\ isRedirectCode(StatusOf(incoming'))
  /\ LocationOf(incoming') # None
  /\ CanParse(LocationOf(incoming')[1], Some(requestUrl))
  /\ NewURL(LocationOf(incoming')[1], Some(requestUrl)).protocol
       \notin {"http:", "https:"}

NoRequestToNonHttp ==
  outgoing # None => outgoing[1].options["protocol"] \in {"http:", "https:"}

\* C5 (as claimed): in follow mode, a redirect whose resolved Location has a
\* scheme other than http: or https: rejects the call with 'URL scheme must
\* be a HTTP(S) scheme', and no request is ever issued to the non-HTTP target.
C5_NonHttpRedirectRejected ==
  /\ []NoRequestToNonHttp
  /\ [][NonHttpRedirectHandled
        => (/\ Rejected(promise', MsgRedirectScheme)
            /\ nrequests' = nrequests)]_vars

\* C5 (amended): such a redirect rejects the call and no request is ever
\* issued to the non-HTTP target; the rejection is 'URL scheme must be a
\* HTTP(S) scheme', except that once 20 redirects have been followed it is
\* 'maximum redirect reached at: <url>'.
C5_NonHttpRedirectRejectedOrMax ==
  /\ []NoRequestToNonHttp
  /\ [][NonHttpRedirectHandled
        => (/\ nrequests' = nrequests
            /\ IF redirects < MAX_REDIRECTS
               THEN Rejected(promise', MsgRedirectScheme)
               ELSE promise'.state = "rejected"
                    /\ promise'.reason =
                         Error("Error", MsgMaxRedirect, URLToString(requestUrl)))]_vars

C5_Witness ==
  /\ Rejected(promise, MsgRedirectScheme)
  /\ redirect = "follow"
  /\ LocationOf(incoming) = Some(<<"ftp:", "", "b", "", "/f">>)
  /\ nrequests = 2
  /\ outgoing[1].options["protocol"] = "http:"

\* C6: in error mode, a redirect response (301/302/303/307/308) carrying a
\* Location rejects the call with 'URI requested responds with a redirect,
\* redirect mode is set to error'; exactly one request is issued and no
\* Response is delivered.
C6_ErrorModeRejects ==
  [][(/\ ResponseHandled
      /\ redirect = "error"
      /\ isRedirectCode(StatusOf(incoming'))
      /\ LocationOf(incoming') # None)
     => (/\ Rejected(promise', MsgRedirectModeError)
         /\ nrequests' = 1
         /\ response' = None)]_vars

\* C7: in manual mode, a redirect response with a Location is itself
\* delivered with its status unchanged and its Location header replaced by
\* the absolute URL resolved against the current request URL; no second
\* request is issued.
C7_ManualDelivers ==
  [][(/\ ResponseHandled
      /\ redirect = "manual"
      /\ isRedirectCode(StatusOf(incoming'))
      /\ LocationOf(incoming') # None)
     => (/\ promise'.state = "fulfilled"
         /\ response' # None
         /\ response'[1].status = StatusOf(incoming')
         /\ HeadersGet(response'[1].headers, "Location") =
              Some(URLToString(NewURL(LocationOf(incoming')[1], Some(requestUrl))))
         /\ nrequests' = 1)]_vars

\* C8: under follow and manual modes, a redirect-status response without a
\* Location header is delivered as an ordinary response: it is not followed,
\* no Location header is added and the redirect counter is not incremented.
C8_NoLocationDelivered ==
  [][(/\ ResponseHandled
      /\ redirect \in {"follow", "manual"}
      /\ isRedirectCode(StatusOf(incoming'))
      /\ LocationOf(incoming') = None)
     => (/\ promise'.state = "fulfilled"
         /\ response' # None
         /\ response'[1].status = StatusOf(incoming')
         /\ ~HeadersHas(response'[1].headers, "Location")
         /\ nrequests' = nrequests
         /\ redirects' = redirects)]_vars

C8_Witness ==
  /\ response # None
  /\ redirect = "follow"
  /\ response[1].status = 301
  /\ StatusOf(incoming) = 301
  /\ LocationOf(incoming) = None
  /\ nrequests = 2
  /\ redirects = 1

\* C9: the delivered Response has redirected = TRUE exactly when at least one
\* redirect was followed before it was delivered; it is FALSE in manual mode
\* and when the response of the first hop is delivered.
C9_RedirectedFlag ==
  response # None =>
    /\ response[1].redirected <=> nrequests > 1
    /\ redirect = "manual" => ~response[1].redirected

C9_Witness ==
  /\ response # None
  /\ response[1].redirected
  /\ nrequests = 3
  /\ response[1].status = 200

\* C10: Response.url is the URL of the hop that produced the delivered
\* response: the URL of the first hop is the requested URL, the URL of a hop
\* issued by a followed redirect is that redirect's Location resolved against
\* the URL of the hop before, and the Response carries the URL of the hop
\* whose response is delivered.
C10_ResponseUrl ==
  [][/\ (nrequests = 0 /\ nrequests' = 1)
          => requestUrl' = NewURL(input.url, NoBase)
     /\ Followed
          => requestUrl' = NewURL(LocationOf(incoming')[1], Some(requestUrl))
     /\ (response = None /\ response' # None)
          => /\ response'[1].url = URLToString(requestUrl)
             /\ requestUrl' = requestUrl]_vars

C10_Witness ==
  /\ response # None
  /\ nrequests = 3
  /\ response[1].url = <<"http:", "", "b", "", "/inspect">>
  /\ input.url = <<"http:", "", "a", "8080", "/r">>

----------------------------------------------------------------------------
(* Properties of the call's arguments *)

\* The URL the call is made with.
UrlOf(in) == IF isRequest(in) THEN in.request[1].url ELSE in.url

UnsupportedUrl(in) ==
  \/ ~CanParse(UrlOf(in), NoBase)
  \/ NewURL(UrlOf(in), NoBase).protocol \notin {"http:", "https:"}

UnsupportedRedirectOption(in) ==
  in.redirect # None /\ in.redirect[1] \notin {"follow", "manual", "error"}

RejectedWithTypeError(p) == p.state = "rejected" /\ p.reason.name = "TypeError"

\* C11: if the input URL is invalid or has a scheme other than http: or
\* https:, or the redirect option is a value other than follow, manual, error
\* or absent, the call rejects with a TypeError and issues no request.
C11_InvalidInputRejected ==
  (pc # "start" /\ (UnsupportedUrl(input) \/ UnsupportedRedirectOption(input)))
    => (RejectedWithTypeError(promise) /\ nrequests = 0)

\* The method the call asks for: that of init, else that of the Request.
MethodAsked(in) ==
  IF in.method # None THEN in.method[1]
  ELSE IF isRequest(in) THEN in.request[1].method
  ELSE "GET"

\* C12: no request is ever issued with method CONNECT, TRACE or TRACK: a call
\* whose method, in upper case, is one of the three rejects with the TypeError
\* 'HTTP method is unsupported' before any request.
C12_NoForbiddenMethod ==
  /\ outgoing # None => MethodOf(outgoing) \notin {"CONNECT", "TRACE", "TRACK"}
  /\ (pc # "start" /\ ToUpperCase(MethodAsked(input)) \in {"CONNECT", "TRACE", "TRACK"})
       => (RejectedWithTypeError(promise) /\ nrequests = 0)

\* C13: when the input is a Request, the method, body and redirect mode of
\* the exchange are those of init where init supplies them, and those of the
\* Request only where init leaves them absent.
C13_InitOverridesRequest ==
  [][(pc = "start" /\ nrequests' = 1 /\ isRequest(input))
     => (/\ MethodOf(outgoing') = ToUpperCase(MethodAsked(input))
         /\ outgoing'[1].body.bytes =
              (IF input.body.kind # "null" THEN input.body.bytes
               ELSE input.request[1].body.bytes)
         /\ redirect' = (IF input.redirect # None THEN input.redirect[1]
                         ELSE input.request[1].redirect))]_vars

\* What a call lets the engine and the caller see: the request as sent
\* (method, headers with their Content-Length or chunked framing, body bytes)
\* and the outcome.
Observed(s) ==
  [request |-> IF s.outgoing = None THEN None
               ELSE Some([method |-> s.outgoing[1].options["method"],
                          headers |-> s.outgoing[1].headers,
                          bytes |-> s.outgoing[1].body.bytes]),
   nrequests |-> s.nrequests, promise |-> s.promise, response |-> s.response]

\* fetch(new Request(U, init)) for the call fetch(U, init).
ViaRequest(in) ==
  [url |-> in.url, method |-> None, body |-> NullBody, redirect |-> None,
   headers |-> <<>>, signal |-> None,
   request |-> Some(NewRequest(in.url, in).value)]

\* C14: fetch(new Request(U, init)) and fetch(U, init) are observationally
\* equivalent: they send the same request and, whatever the engine answers
\* (a 307 included), the same next request or outcome follows.
C14_RequestEquivalent ==
  (pc = "start" /\ ~isRequest(input) /\ NewRequest(input.url, input).ok)
    => LET direct == fetch(State, input)
           wrapped == fetch(State, ViaRequest(input))
       IN /\ Observed(direct) = Observed(wrapped)
          /\ (direct.pc = "awaiting" /\ wrapped.pc = "awaiting")
               => \A statusCode \in CallStatuses, rawHeaders \in CallRawHeaders :
                    Observed(onResponse(direct, statusCode, rawHeaders, BodyData))
                      = Observed(onResponse(wrapped, statusCode, rawHeaders, BodyData))

\* The headers given in init, as a Headers container.
InitHeaders(in) == NewHeaders(in.headers)

\* C15 (as claimed): when the input is a Request with headers and init.headers
\* is given too, every header name present in both is sent with the value of
\* init.headers.
C15_InitHeadersWin ==
  (outgoing # None /\ isRequest(input) /\ input.headers # <<>>)
    => \A name \in HeaderNames :
         (HeadersHas(input.request[1].headers, name) /\ HeadersHas(InitHeaders(input), name))
           => HeadersGet(outgoing[1].headers, name) = HeadersGet(InitHeaders(input), name)

\* C15 (amended): the same for every header name other than Content-Length,
\* which header finalisation and the rewriting of redirects govern.
C15_InitHeadersWinButLength ==
  (outgoing # None /\ isRequest(input) /\ input.headers # <<>>)
    => \A name \in HeaderNames \ {"content-length"} :
         (HeadersHas(input.request[1].headers, name) /\ HeadersHas(InitHeaders(input), name))
           => HeadersGet(outgoing[1].headers, name) = HeadersGet(InitHeaders(input), name)

C15_Witness ==
  /\ outgoing # None
  /\ isRequest(input)
  /\ HeadersGet(input.request[1].headers, "Content-Type") = Some("text/x")
  /\ input.headers = <<"Content-Type", "application/json">>
  /\ HeadersGet(outgoing[1].headers, "Content-Type") = Some("application/json")
  /\ nrequests = 2

\* C16: a Content-Type header supplied by the caller is never overwritten by
\* the content type synthesised from the body.
C16_CallerContentTypeKept ==
  (outgoing # None /\ HeadersHas(initHeadersOf(input), "Content-Type"))
    => HeadersGet(outgoing[1].headers, "Content-Type")
         = HeadersGet(initHeadersOf(input), "Content-Type")

\* C17: every request is sent with Content-Length: 0 if its body is null and
\* its method POST or PUT, and with Content-Length: n if its body is non-null
\* of known length n, whatever Content-Length the caller supplied.
C17_ContentLengthFinalized ==
  [][nrequests' = nrequests + 1
     => (/\ (outgoing'[1].body.kind = "null" /\ MethodOf(outgoing') \in {"POST", "PUT"})
              => HeadersGet(outgoing'[1].headers, "Content-Length") = Some(<<0>>)
         /\ (outgoing'[1].body.kind # "null" /\ requestBody'.contentLength # None)
              => HeadersGet(outgoing'[1].headers, "Content-Length")
                   = Some(NumberToString(Len(outgoing'[1].body.bytes))))]_vars

C17_Witness ==
  /\ outgoing # None
  /\ input.headers = <<"Content-Length", <<9, 9>> >>
  /\ input.body.kind = "string"
  /\ ~isRequest(input)
  /\ outgoing[1].body.bytes = input.body.bytes
  /\ HeadersGet(outgoing[1].headers, "Content-Length") = Some(<<MaxBodyBytes>>)
  /\ nrequests = 2

----------------------------------------------------------------------------
(* Properties of the delivered Response *)

\* The Content-Encoding value the server sent with the response.
EncodingSent(inc) == HeadersGet(headersOfRawHeaders(inc[1].rawHeaders), "Content-Encoding")

\* C18: the delivered Response has a null body if and only if the method of
\* the delivering hop is HEAD or its status is 204 or 304, and then no content
\* decoder is constructed even when a Content-Encoding header is present.
C18_NullBody ==
  response # None =>
    /\ response[1].body.kind = "null"
         <=> (MethodOf(outgoing) = "HEAD" \/ StatusOf(incoming) \in {204, 304})
    /\ response[1].body.kind = "null" => decoders = <<>>

C18_Witness ==
  /\ response # None
  /\ MethodOf(outgoing) = "HEAD"
  /\ StatusOf(incoming) = 200
  /\ EncodingSent(incoming) = Some("gzip")
  /\ response[1].body.kind = "null"
  /\ decoders = <<>>

\* C19 (as claimed): the Content-Encoding of every delivered Response that
\* carries one is the server's value in lower case.
C19_EncodingLowercased ==
  (response # None /\ EncodingSent(incoming) # None)
    => HeadersGet(response[1].headers, "Content-Encoding")
         = Some(LowerCase(EncodingSent(incoming)[1]))

\* C19 (amended): it is the server's value in lower case when the Response
\* has a body, and the server's value as sent when the body is null (method
\* HEAD, status 204 or 304).
C19_EncodingLowercasedWithBody ==
  (response # None /\ EncodingSent(incoming) # None)
    => HeadersGet(response[1].headers, "Content-Encoding")
         = (IF MethodOf(outgoing) = "HEAD" \/ StatusOf(incoming) \in {204, 304}
            THEN EncodingSent(incoming)
            ELSE Some(LowerCase(EncodingSent(incoming)[1])))

C19_Witness ==
  /\ response # None
  /\ EncodingSent(incoming) = Some("GZip")
  /\ StatusOf(incoming) = 200
  /\ MethodOf(outgoing) = "POST"
  /\ HeadersGet(response[1].headers, "Content-Encoding") = Some("gzip")

\* C20: the body of a Response delivered with a Content-Encoding is read
\* through the decoder of the encoding in lower case: gzip decompression for
\* gzip and x-gzip, brotli for br, the autodetecting inflate for deflate and
\* x-deflate, and for every other value a pass-through, the body bytes being
\* the wire bytes and the header being kept.
C20_DecoderChosen ==
  (response # None /\ response[1].body.kind # "null" /\ EncodingSent(incoming) # None)
    => LET e == LowerCase(EncodingSent(incoming)[1])
           wire == incoming[1].body
           read == ReadBody(response[1].body)
       IN CASE e \in {"gzip", "x-gzip"} ->
                 decoders = <<"Gunzip">> /\ read = Strip(wire, GzipHeader)
            [] e = "br" ->
                 decoders = <<"BrotliDecompress">> /\ read = Strip(wire, BrotliHeader)
            [] e \in {"deflate", "x-deflate"} ->
                 decoders = <<"InflateStream">> /\ read = InflateStream(wire)
            [] OTHER ->
                 /\ decoders = <<"PassThrough">>
                 /\ read = Ok(wire)
                 /\ HeadersGet(response[1].headers, "Content-Encoding") = Some(e)

C20_Witness ==
  /\ response # None
  /\ EncodingSent(incoming) = Some("Zstd")
  /\ incoming[1].body = GzipHeader \o BodyData
  /\ ReadBody(response[1].body) = Ok(GzipHeader \o BodyData)
  /\ HeadersGet(response[1].headers, "Content-Encoding") = Some("zstd")
  /\ decoders = <<"PassThrough">>

----------------------------------------------------------------------------
(* Properties of the redirect modes, continued *)

\* C29: a redirect-status response without a Location header is delivered as
\* an ordinary response under error mode as well: the call is fulfilled with
\* it and no further request is issued.
C29_NoLocationDeliveredInErrorMode ==
  [][(/\ ResponseHandled
      /\ redirect = "error"
      /\ isRedirectCode(StatusOf(incoming'))
      /\ LocationOf(incoming') = None)
     => (/\ promise'.state = "fulfilled"
         /\ response' # None
         /\ response'[1].status = StatusOf(incoming')
         /\ nrequests' = nrequests)]_vars

----------------------------------------------------------------------------
(* Properties of body extraction *)

\* The BodyState of the first hop is extractBody of the body of the call.
FirstHop == nrequests = 1 /\ nresponses = 0

\* C25: extractBody yields a non-null contentType for a string, a url-form, a
\* form-data, a multipart stream and a stringified other value; for a blob it
\* yields the type of the blob, null when that is empty; for byte buffers, web
\* streams, native streams and iterables it yields null.
C25_ContentTypeOfBody ==
  FirstHop =>
    CASE input.body.kind \in {"string", "URLSearchParams", "FormData",
                              "MultipartStream", "Other"} ->
           requestBody.contentType # None
      [] input.body.kind = "Blob" ->
           requestBody.contentType =
             (IF input.body.type = "" THEN None ELSE Some(input.body.type))
      [] input.body.kind \in {"Uint8Array", "ArrayBuffer", "DataView",
                              "ReadableStream", "Readable", "Iterable"} ->
           requestBody.contentType = None

C25_Witness ==
  /\ FirstHop
  /\ input.body.kind = "Blob"
  /\ input.body.type = ""
  /\ requestBody.contentType = None
  /\ ~HeadersHas(outgoing[1].headers, "Content-Type")
  /\ outgoing[1].body.bytes = BodyBytes

\* The order of the probes as the claim gives it.
ClaimedOrder ==
  <<"string", "URLSearchParams", "Blob", "Uint8Array", "AnyArrayBuffer",
    "ArrayBufferView", "ReadableStream", "FormData", "MultipartFormDataStream",
    "Readable", "Iterable">>

EarliestProbe(object) ==
  IF \A i \in 1..Len(ClaimedOrder) : ClaimedOrder[i] \notin ProbesOf(object)
  THEN "other"
  ELSE ClaimedOrder[CHOOSE i \in 1..Len(ClaimedOrder) :
                      /\ ClaimedOrder[i] \in ProbesOf(object)
                      /\ \A j \in 1..(i - 1) : ClaimedOrder[j] \notin ProbesOf(object)]

\* C26: a non-null body is handled by the first probe it satisfies in the
\* order string, url-form, blob, byte buffer / array buffer / view, web
\* stream, form-data, multipart stream, native stream, iterable, other, and by
\* that one only: a multipart stream, also a native stream and an iterable,
\* keeps its multipart content type and its known length; a byte buffer and a
\* url-form, also iterables, are sent as bytes of known length.
C26_FirstProbeWins ==
  FirstHop =>
    /\ classify(input.body) = EarliestProbe(input.body)
    /\ input.body.kind = "MultipartStream" =>
         /\ requestBody.contentType =
              Some(<<"multipart/form-data; boundary=", input.body.boundary>>)
         /\ requestBody.contentLength =
              (IF input.body.knownLength THEN Some(Len(input.body.bytes)) ELSE None)
         /\ requestBody.body.kind = "Readable"
    /\ input.body.kind \in {"Uint8Array", "URLSearchParams"} =>
         /\ requestBody.body.kind = "Uint8Array"
         /\ requestBody.contentLength = Some(Len(input.body.bytes))
    /\ input.body.kind = "ReadableStream" => requestBody.body.kind = "ReadableStream"
    /\ input.body.kind = "FormData" => requestBody.contentLength # None

C26_Witness ==
  /\ FirstHop
  /\ input.body.kind = "MultipartStream"
  /\ input.body.knownLength
  /\ Cardinality(ProbesOf(input.body)) = 3
  /\ classify(input.body) = "MultipartFormDataStream"
  /\ HeadersHas(outgoing[1].headers, "Content-Type")
  /\ HeadersHas(outgoing[1].headers, "Content-Length")

\* C27: for a FormData body the precomputed contentLength is the number of
\* bytes the multipart generator emits (per entry the header, the value and a
\* CRLF, then the footer), so that the Content-Length sent is the number of
\* body bytes written.
C27_FormDataLength ==
  [][(nrequests' = nrequests + 1 /\ classify(initBody') = "FormData"
        /\ outgoing'[1].body.kind # "null")
     => (/\ requestBody'.contentLength = Some(Len(outgoing'[1].body.bytes))
         /\ HeadersGet(outgoing'[1].headers, "Content-Length")
              = Some(NumberToString(Len(outgoing'[1].body.bytes))))]_vars

C27_Witness ==
  /\ FirstHop
  /\ input.body.kind = "FormData"
  /\ input.body.entries = << <<"a", TextField>> >>
  /\ HeadersGet(outgoing[1].headers, "Content-Length") = Some(<<1, 0, 9>>)
  /\ Len(outgoing[1].body.bytes) = 109

\* C28: when a redirect is followed without dropping the body, and the body
\* sent so far has a known content length, the next hop is sent a body
\* carrying the same bytes.
C28_BodyResent ==
  [][(/\ Followed
      /\ ~rewritesToGet(StatusOf(incoming'), MethodOf(outgoing))
      /\ outgoing[1].body.kind # "null"
      /\ requestBody.contentLength # None)
     => outgoing'[1].body.bytes = outgoing[1].body.bytes]_vars


----------------------------------------------------------------------------
(* C21 *)

\* A chunk of the delivered response goes through the deflate decoder.
DeflateChunk ==
  /\ reading.decoder = Some("InflateStream")
  /\ reading'.chunks = reading.chunks + 1

\* C21: the deflate decoder commits to a variant once, on the first byte b of
\* the first chunk that is not empty: zlib-wrapped if b mod 16 = 8, raw
\* deflate otherwise.  An empty chunk before that commits to nothing and puts
\* nothing out, and no later chunk changes the choice.
C21_DeflateCommitsOnce ==
  [][DeflateChunk =>
       IF reading.inflate # None THEN reading'.inflate = reading.inflate
       ELSE IF reading'.remaining = reading.remaining
       THEN /\ reading'.inflate = None
            /\ reading'.output = <<>>
            /\ reading'.state = "open"
       ELSE reading'.inflate =
              Some(IF reading.remaining[1] % 16 = 8 THEN "Inflate" ELSE "InflateRaw")]_vars

\* The decoder has committed to raw deflate on a chunk that came after an
\* empty one: more chunks than bytes have gone in.
C21_Witness ==
  /\ reading.decoder = Some("InflateStream")
  /\ reading.state = "open"
  /\ reading.inflate = Some("InflateRaw")
  /\ reading.piped # <<>>
  /\ reading.chunks > Len(reading.piped)


----------------------------------------------------------------------------
(* C30 *)

\* C30: the call has one abort listener on its signal from the delivery of a
\* response until the body of that response has finished, and none before
\* (the hops of a followed redirect register none) or after.
C30_ListenerPaired ==
  listeners = IF signal # None /\ reading.state = "open" THEN 1 ELSE 0


----------------------------------------------------------------------------
(* C22 *)

\* The signal that governs the call: the one of init, or else the one of the
\* Request.
GoverningSignal(in) ==
  IF in.signal # None THEN in.signal
  ELSE IF isRequest(in) THEN Some(in.request[1].signal)
  ELSE None

\* The signal that governs the call has aborted.
GoverningAborted ==
  GoverningSignal(input) # None /\ GoverningSignal(input)[1] \in aborted

\* C22: once the signal has aborted with the promise still pending, at call
\* time or while a hop awaits its response, a request that is out is dead, the
\* promise is never fulfilled, it is rejected with nothing but the abort
\* error, and no request made from then on is sent.
C22_AbortBeforeHeaders ==
  [][(GoverningAborted /\ promise.state = "pending") =>
       /\ pc = "awaiting" => outgoing[1].destroyed # None
       /\ promise'.state # "fulfilled"
       /\ promise'.state = "rejected" => promise'.reason.name = "AbortError"
       /\ nrequests' > nrequests => outgoing'[1].destroyed # None]_vars


----------------------------------------------------------------------------
(* C23 *)

\* The signal that governs the call aborts in this step.
GoverningAborts ==
  /\ GoverningSignal(input) # None
  /\ GoverningSignal(input)[1] \notin aborted
  /\ GoverningSignal(input)[1] \in aborted'

\* What reading the body of the delivered Response gives, once it is known.
BodyRead(r) ==
  CASE r.state = "errored" -> Some(Throw(r.error[1]))
    [] r.state = "ended" -> Some(Ok(r.output))
    [] OTHER -> None

\* C23: when the signal aborts with the Response delivered and its body not
\* read to the end, the response stream is destroyed with the reason of the
\* signal and reading the body rejects with it, with a content decoder in
\* the path or without.
C23_AbortAfterDelivery ==
  [][(GoverningAborts /\ promise.state = "fulfilled" /\ reading.state = "open"
        /\ reading.flowing) =>
       /\ reading'.state = "errored"
       /\ reading'.error = Some(SignalReason)
       /\ BodyRead(reading') = Some(Throw(SignalReason))]_vars

----------------------------------------------------------------------------
(* C24 *)

\* C24: once the signal has aborted with a stream being piped into the
\* request, that request is destroyed with the abort error, and the stream
\* given as body leaves the pipeline only with that error on it and with the
\* promise rejected with it.
C24_AbortWhilePiping ==
  [][(GoverningAborted /\ bodySource.state = "piping") =>
       /\ outgoing[1].destroyed = Some(AbortError)
       /\ \/ bodySource' = bodySource
          \/ /\ bodySource' = [state |-> "errored", error |-> Some(AbortError)]
             /\ promise' = [state |-> "rejected", reason |-> AbortError]]_vars


----------------------------------------------------------------------------
(* C38 *)

\* The number of `bs` that are true.
Count(bs) == Len(SelectSeq(bs, LAMBDA b : b))

\* C38: every 'response' event ends in exactly one of these: the promise is
\* fulfilled, the promise is rejected, one new request is issued.
C38_ResponseSettlesOrFollows ==
  [][ResponseHandled =>
       Count(<<promise.state = "pending" /\ promise'.state = "fulfilled",
               promise.state = "pending" /\ promise'.state = "rejected",
               nrequests' = nrequests + 1>>) = 1]_vars


----------------------------------------------------------------------------
(* C36 *)

\* A request with method GET, no body and no Content-Length.
BodilessGet(out) ==
  /\ MethodOf(out) = "GET"
  /\ out[1].body.kind = "null"
  /\ ~HeadersHas(out[1].headers, "Content-Length")

\* C36: the request that follows a redirect which drops the body (a 303, or
\* a 301 or 302 on POST) is a GET with no body and no Content-Length, and so
\* is the request that follows any redirect of such a request: once dropped,
\* the body never comes back.
C36_BodyStaysDropped ==
  [][(Followed /\ (rewritesToGet(StatusOf(incoming'), MethodOf(outgoing))
                     \/ BodilessGet(outgoing)))
       => BodilessGet(outgoing')]_vars


----------------------------------------------------------------------------
(* C37 *)

ConnectionKeys == {"protocol", "hostname", "port", "path", "auth"}

\* The connection options of `options` are those of the URL `u` and no other.
OptionsOf(options, u) ==
  \A k \in ConnectionKeys :
    IF k \in DOMAIN NodeUrlToHttpOptions(u)
    THEN k \in DOMAIN options /\ options[k] = NodeUrlToHttpOptions(u)[k]
    ELSE k \notin DOMAIN options

\* C37: the request issued after a followed redirect has the connection
\* options of the resolved Location, and none that comes from the URL of the
\* hop before.
C37_OptionsOfLocation ==
  [][Followed =>
       /\ requestUrl' = NewURL(LocationOf(incoming')[1], Some(requestUrl))
       /\ OptionsOf(outgoing'[1].options, requestUrl')]_vars


----------------------------------------------------------------------------
(* C35 *)

\* C35: the request issued after a followed redirect has every header other
\* than Content-Length with the value it had on the request before.
C35_HeadersCarried ==
  [][Followed =>
       \A name \in HeaderNames \ {"content-length"} :
         outgoing'[1].headers[name] = outgoing[1].headers[name]]_vars


----------------------------------------------------------------------------
(* C34 *)

\* This step issued a request.
Requested == nrequests' = nrequests + 1

\* C34: a request whose body is not null and has no known length is sent
\* without a Content-Length header.
C34_NoLengthWhenUnknown ==
  [][(Requested /\ requestBody'.body.kind # "null"
        /\ requestBody'.contentLength = None)
       => ~HeadersHas(outgoing'[1].headers, "Content-Length")]_vars


----------------------------------------------------------------------------
(* C31 *)

\* C31: the BodyState has a null stream if and only if its contentLength is
\* 0 or null and it has no bytes to send.
C31_NullStreamIff ==
  requestBody.body.kind = "null"
    <=> (/\ requestBody.contentLength \in {None, Some(0)}
         /\ requestBody.body.bytes = <<>>)

\* C31, amended: the BodyState has a null stream only for a body that is
\* null, and then its contentLength is 0 and it has no bytes to send; a body
\* that is not null gives a stream, also when it is empty.
C31_NullStreamOnlyForNull ==
  /\ requestBody.body.kind = "null" =>
       /\ requestBody.contentLength = Some(0)
       /\ requestBody.body.bytes = <<>>
  /\ FirstHop => (requestBody.body.kind = "null" <=> input.body.kind = "null")

\* A redirect has dropped the body: the BodyState is that of null.
C31_Witness ==
  /\ nrequests > 1
  /\ input.body.bytes = <<>>
  /\ requestBody.body.kind = "null"
  /\ requestBody.contentLength = Some(0)


----------------------------------------------------------------------------
(* C39 *)

\* This step handled an error of the request of a superseded hop, or of the
\* pipeline that writes its body.
StaleErrored == stale' = stale - 1

\* C39: an error of a superseded hop leaves the promise as it is.
C39_StaleErrorIgnored == [][StaleErrored => promise' = promise]_vars

----------------------------------------------------------------------------
(* C40 *)

\* C40: a 'response' event that does not hand its stream to the caller, a
\* redirect that is followed or that rejects the call, releases the stream: no
\* response stream is left open behind the call.
C40_RedirectStreamReleased == held = 0

----------------------------------------------------------------------------
(* C32 *)

\* The response handled in this step is a redirect that the call follows.
FollowableRedirect ==
  /\ redirect = "follow"
  /\ isRedirectCode(StatusOf(incoming'))
  /\ LocationOf(incoming') # None

\* C32: the call has issued one request and one more for every redirect it
\* followed: requests are issued one at a time, by the call itself, once, or
\* by the one response to the request before, which is a redirect to follow,
\* and never once the promise has settled.
C32_OneRequestPerHop ==
  /\ [][nrequests' \in {nrequests, nrequests + 1}]_vars
  /\ [](pc = "awaiting" => nrequests = nresponses + 1)
  /\ [][Requested =>
          /\ promise.state = "pending"
          /\ \/ pc = "start" /\ nrequests = 0
             \/ ResponseHandled /\ FollowableRedirect]_vars


----------------------------------------------------------------------------
(* C33 *)

\* C33: the promise is fulfilled on the headers of the response, with no
\* byte of the body read; once fulfilled, the promise and its Response stay
\* as they are, and an error that comes later, of a decoder or of the
\* connection, is the error the body stream has.
C33_BodyErrorsOnBody ==
  /\ [][(promise.state = "pending" /\ promise'.state = "fulfilled") =>
          /\ ResponseHandled
          /\ reading'.state = "open"
          /\ reading'.chunks = 0
          /\ reading'.piped = <<>>
          /\ reading'.remaining = incoming'[1].body]_vars
  /\ [][promise.state = "fulfilled" =>
          /\ promise' = promise
          /\ response' = response
          /\ (reading.state = "open" /\ reading'.state = "errored") =>
               /\ reading'.error # None
               /\ BodyRead(reading') = Some(Throw(reading'.error[1]))]_vars

\* A body that is no gzip was delivered under Content-Encoding: gzip and
\* failed when it was read.
C33_Witness ==
  /\ promise.state = "fulfilled"
  /\ reading.decoder = Some("Gunzip")
  /\ reading.state = "errored"
  /\ reading.error = Some(Error("Error", "incorrect header check", NoArg))

====
